---- MODULE Spec2Model ----
(***************************************************************************)
(* The IAM policy synthesis of source/resources/lib/iam.ts: the            *)
(* IAMConstruct constructor builds two policies (FMSPolicyRead and         *)
(* FMSPolicyWrite) for one role out of eleven statement literals po0..po10 *)
(* and the identifiers it is given in props, then attaches the cfn_nag     *)
(* suppression metadata to each policy.                                    *)
(***************************************************************************)
EXTENDS Integers, Sequences, FiniteSets, TLC

VARIABLES props, given, pc, idx, readPolicy, writePolicy, err, run,
          firstRead, firstWrite

vars == <<props, given, pc, idx, readPolicy, writePolicy, err, run,
          firstRead, firstWrite>>

(***************************************************************************)
(* Bounds of the model.                                                    *)
(***************************************************************************)
\* how many different value sets the identifiers of props are drawn from
NumVariants == 2
\* how many identifiers of props may be undefined in one construction
MaxMissing == 2
\* how many times the constructor is run on the same props
MaxRuns == 2

(***************************************************************************)
(* props: interface IIam.  TypeScript types are erased at run time, so a   *)
(* caller can hand over undefined for a field; Undefined stands for the    *)
(* JavaScript value undefined (it is no string the caller can pass).       *)
(* props.s3Bucket is modelled by the bucket's bucketArn.                   *)
(***************************************************************************)
IIam == {"policyTable", "logGroup", "sqs", "role", "accountId", "region",
         "metricsQueue", "regionParamArn", "ouParamArn", "tagParamArn",
         "s3Bucket"}

Undefined == "<undefined>"

IdentifierValue(name, v) == name \o "-" \o ToString(v)

PropsOf(v, missing) ==
  [n \in IIam |-> IF n \in missing THEN Undefined ELSE IdentifierValue(n, v)]

(***************************************************************************)
(* The parts of a resource expression of the source.                       *)
(*   Lit(s)     a string literal, or the literal text of a template        *)
(*   Prop(n)    props.n                                                    *)
(*   Member(n)  props.n.bucketArn                                          *)
(* An entry is either one expression used as it is (form "value") or a     *)
(* template literal `...${e}...` (form "template").                        *)
(***************************************************************************)
Lit(s) == [k |-> "lit", v |-> s]
Prop(n) == [k |-> "prop", v |-> n]
Member(n) == [k |-> "member", v |-> n]
Value(part) == [form |-> "value", parts |-> <<part>>]
Template(parts) == [form |-> "template", parts |-> parts]

NoConditions == <<>>

(***************************************************************************)
(* The statement literals.  sid is written in its three pieces (the        *)
(* service tag, the access class word, the digits); actions are written    *)
(* <<service, verb>> for "service:verb"; policy is the policy whose        *)
(* addStatements the source calls with the statement.                      *)
(***************************************************************************)
po0 ==
  [tag |-> "EC2", cls |-> "Read", num |-> <<0>>,
   effect |-> "ALLOW",
   actions |-> << <<"ec2", "DescribeRegions">> >>,
   resources |-> << Value(Lit("*")) >>,
   conditions |-> NoConditions,
   policy |-> "readPolicy"]

po1 ==
  [tag |-> "DDB", cls |-> "Write", num |-> <<0, 1>>,
   effect |-> "ALLOW",
   actions |-> << <<"dynamodb", "GetItem">>, <<"dynamodb", "UpdateItem">>,
                  <<"dynamodb", "DeleteItem">> >>,
   resources |-> << Template(<< Lit("arn:aws:dynamodb:"), Prop("region"),
                                Lit(":"), Prop("accountId"), Lit(":table/"),
                                Prop("policyTable") >>) >>,
   conditions |-> NoConditions,
   policy |-> "writePolicy"]

po2 ==
  [tag |-> "FMS", cls |-> "Write", num |-> <<0, 2, 1>>,
   effect |-> "ALLOW",
   actions |-> << <<"fms", "PutPolicy">>, <<"fms", "DeletePolicy">> >>,
   resources |-> << Value(Lit("arn:aws:fms:*:*:policy/*")) >>,
   conditions |-> NoConditions,
   policy |-> "writePolicy"]

po3DupSid ==
  [tag |-> "FMS", cls |-> "Write", num |-> <<0, 2, 1>>,
   effect |-> "ALLOW",
   actions |-> << <<"logs", "CreateLogStream">>, <<"logs", "PutLogEvents">>,
                  <<"logs", "CreateLogGroup">> >>,
   resources |-> << Value(Prop("logGroup")) >>,
   conditions |-> NoConditions,
   policy |-> "writePolicy"]

po3 ==
  [tag |-> "CloudWatchLogs", cls |-> "Write", num |-> <<0, 3>>,
   effect |-> "ALLOW",
   actions |-> << <<"logs", "CreateLogStream">>, <<"logs", "PutLogEvents">>,
                  <<"logs", "CreateLogGroup">> >>,
   resources |-> << Value(Prop("logGroup")) >>,
   conditions |-> NoConditions,
   policy |-> "writePolicy"]

po4 ==
  [tag |-> "SQS", cls |-> "Write", num |-> <<0, 4>>,
   effect |-> "ALLOW",
   actions |-> << <<"sqs", "SendMessage">> >>,
   resources |-> << Value(Prop("sqs")),
                    Template(<< Lit("arn:aws:sqs:"), Prop("region"), Lit(":"),
                                Prop("accountId"), Lit(":"),
                                Prop("metricsQueue") >>) >>,
   conditions |-> NoConditions,
   policy |-> "writePolicy"]

po5Misfiled ==
  [tag |-> "SSM", cls |-> "Read", num |-> <<0, 5>>,
   effect |-> "ALLOW",
   actions |-> << <<"ssm", "GetParameter">> >>,
   resources |-> << Value(Prop("regionParamArn")), Value(Prop("ouParamArn")),
                    Value(Prop("tagParamArn")) >>,
   conditions |-> NoConditions,
   policy |-> "writePolicy"]

po5 ==
  [tag |-> "SSM", cls |-> "Read", num |-> <<0, 5>>,
   effect |-> "ALLOW",
   actions |-> << <<"ssm", "GetParameter">> >>,
   resources |-> << Value(Prop("regionParamArn")), Value(Prop("ouParamArn")),
                    Value(Prop("tagParamArn")) >>,
   conditions |-> NoConditions,
   policy |-> "readPolicy"]

po6 ==
  [tag |-> "S3", cls |-> "Read", num |-> <<0, 6>>,
   effect |-> "ALLOW",
   actions |-> << <<"s3", "GetObject">> >>,
   resources |-> << Value(Member("s3Bucket")),
                    Template(<< Member("s3Bucket"), Lit("/*") >>) >>,
   conditions |-> NoConditions,
   policy |-> "readPolicy"]

po7 ==
  [tag |-> "WAF", cls |-> "Write", num |-> <<0, 7>>,
   effect |-> "ALLOW",
   actions |-> << <<"wafv2", "*">>, <<"shield", "GetSubscriptionState">> >>,
   resources |-> << Value(Lit("*")) >>,
   conditions |-> NoConditions,
   policy |-> "writePolicy"]

po8 ==
  [tag |-> "DNS", cls |-> "Write", num |-> <<0, 8>>,
   effect |-> "ALLOW",
   actions |-> << <<"route53resolver", "CreateFirewallRule">>,
                  <<"route53resolver", "CreateFirewallRuleGroup">>,
                  <<"route53resolver", "DeleteFirewallRuleGroup">>,
                  <<"route53resolver", "ListFirewallRules">>,
                  <<"route53resolver", "DeleteFirewallRule">>,
                  <<"route53resolver", "GetFirewallRuleGroup">> >>,
   resources |-> << Value(Lit("*")) >>,
   conditions |-> NoConditions,
   policy |-> "writePolicy"]

po9 ==
  [tag |-> "RAM", cls |-> "Write", num |-> <<0, 9>>,
   effect |-> "ALLOW",
   actions |-> << <<"ram", "DeleteResourceShare">> >>,
   resources |-> << Value(Lit("*")) >>,
   conditions |-> << <<"StringEquals", "aws:ResourceTag/FMManaged", "true">> >>,
   policy |-> "writePolicy"]

po10 ==
  [tag |-> "DNSRAM", cls |-> "Read", num |-> <<1, 0>>,
   effect |-> "ALLOW",
   actions |-> << <<"route53resolver", "ListFirewallDomainLists">>,
                  <<"route53resolver", "ListFirewallRuleGroups">>,
                  <<"ram", "ListResources">> >>,
   resources |-> << Value(Lit("*")) >>,
   conditions |-> NoConditions,
   policy |-> "readPolicy"]

\* the statements in the order the constructor builds and adds them
Statements == <<po0, po1, po2, po3, po4, po5, po6, po7, po8, po9, po10>>

(***************************************************************************)
(* Text of a sid and of an action.                                         *)
(***************************************************************************)
RECURSIVE Join(_)
Join(strs) == IF strs = <<>> THEN "" ELSE Head(strs) \o Join(Tail(strs))

Digits(num) == Join([d \in 1..Len(num) |-> ToString(num[d])])

Sid(g) == g.tag \o g.cls \o Digits(g.num)

ActionText(a) == a[1] \o ":" \o a[2]

(***************************************************************************)
(* Evaluation of a resource expression, as JavaScript evaluates it: an     *)
(* expression used as a value keeps its value, undefined included; inside  *)
(* a template literal undefined is converted to the text "undefined".      *)
(* Reading .bucketArn of an undefined props.s3Bucket throws a TypeError.   *)
(***************************************************************************)
PartValue(part, p) == IF part.k = "lit" THEN part.v ELSE p[part.v]

ToStr(v) == IF v = Undefined THEN "undefined" ELSE v

Eval(entry, p) ==
  IF entry.form = "value"
    THEN PartValue(entry.parts[1], p)
    ELSE Join([j \in 1..Len(entry.parts) |-> ToStr(PartValue(entry.parts[j], p))])

Throws(g, p) ==
  \E e \in 1..Len(g.resources) :
    \E j \in 1..Len(g.resources[e].parts) :
      /\ g.resources[e].parts[j].k = "member"
      /\ p[g.resources[e].parts[j].v] = Undefined

\* new PolicyStatement({effect, sid, actions, resources, conditions})
PolicyStatementNoConditions(g, p) ==
  [sid |-> Sid(g),
   effect |-> g.effect,
   actions |-> [a \in 1..Len(g.actions) |-> ActionText(g.actions[a])],
   resources |-> [e \in 1..Len(g.resources) |-> Eval(g.resources[e], p)],
   conditions |-> NoConditions]

PolicyStatement(g, p) ==
  [sid |-> Sid(g),
   effect |-> g.effect,
   actions |-> [a \in 1..Len(g.actions) |-> ActionText(g.actions[a])],
   resources |-> [e \in 1..Len(g.resources) |-> Eval(g.resources[e], p)],
   conditions |-> g.conditions]

(***************************************************************************)
(* Policies.                                                               *)
(***************************************************************************)
NoPolicy == [name |-> "", roles |-> <<>>, statements |-> <<>>, metadata |-> <<>>]

\* new Policy(this, name, {roles: [props.role]}); old is what the variable held
NewPolicyShared(old, name, p) ==
  [name |-> name, roles |-> <<p.role>>, statements |-> old.statements,
   metadata |-> <<>>]

NewPolicy(old, name, p) ==
  [name |-> name, roles |-> <<p.role>>, statements |-> <<>>, metadata |-> <<>>]

\* policy.addStatements(statement)
addStatementsFront(policy, st) ==
  [policy EXCEPT !.statements = <<st>> \o @]

addStatements(policy, st) ==
  [policy EXCEPT !.statements = Append(@, st)]

(***************************************************************************)
(* The cfn_nag rules_to_suppress of the two policies.                      *)
(***************************************************************************)
W12ReadReason ==
  "* needed for [ec2:DescribeRegions, route53resolver:ListFirewallDomainLists, route53resolver:ListFirewallRuleGroups, ram:ListResources], does no support resource level permissions"

W12WriteReason ==
  "* resource used for fms and route53resolver actions, resources are created/deleted as part of solution"

F4WriteReason ==
  "Read & Write permissions needed to create WAFv2 policies"

readRulesToSuppress == << [id |-> "W12", reason |-> W12ReadReason] >>

writeRulesToSuppress ==
  << [id |-> "W12", reason |-> W12WriteReason],
     [id |-> "F4", reason |-> F4WriteReason] >>

NoError == [kind |-> "", property |-> ""]

(***************************************************************************)
(* The constructor, step by step.                                          *)
(***************************************************************************)
Init ==
  /\ props \in {PropsOf(v, m) : v \in 1..NumVariants,
                                m \in {s \in SUBSET IIam : Cardinality(s) <= MaxMissing}}
  /\ given = props
  /\ pc = "start"
  /\ idx = 0
  /\ readPolicy = NoPolicy
  /\ writePolicy = NoPolicy
  /\ err = NoError
  /\ run = 1
  /\ firstRead = NoPolicy
  /\ firstWrite = NoPolicy

NewPolicies ==
  /\ pc = "start"
  /\ readPolicy' = NewPolicy(readPolicy, "FMSPolicyRead", props)
  /\ writePolicy' = NewPolicy(writePolicy, "FMSPolicyWrite", props)
  /\ idx' = 0
  /\ pc' = "statements"
  /\ UNCHANGED <<props, given, err, run, firstRead, firstWrite>>

AddStatement ==
  /\ pc = "statements"
  /\ idx < Len(Statements)
  /\ ~Throws(Statements[idx + 1], props)
  /\ LET g == Statements[idx + 1]
         st == PolicyStatement(g, props)
     IN  IF g.policy = "readPolicy"
           THEN /\ readPolicy' = addStatements(readPolicy, st)
                /\ UNCHANGED writePolicy
           ELSE /\ writePolicy' = addStatements(writePolicy, st)
                /\ UNCHANGED readPolicy
  /\ idx' = idx + 1
  /\ UNCHANGED <<props, given, pc, err, run, firstRead, firstWrite>>

Throw ==
  /\ pc = "statements"
  /\ idx < Len(Statements)
  /\ Throws(Statements[idx + 1], props)
  /\ err' = [kind |-> "TypeError", property |-> "bucketArn"]
  /\ pc' = "threw"
  /\ UNCHANGED <<props, given, idx, readPolicy, writePolicy, run,
                 firstRead, firstWrite>>

SuppressRead ==
  /\ pc = "statements"
  /\ idx = Len(Statements)
  /\ readPolicy' = [readPolicy EXCEPT !.metadata = readRulesToSuppress]
  /\ pc' = "suppressWrite"
  /\ UNCHANGED <<props, given, idx, writePolicy, err, run, firstRead, firstWrite>>

SuppressWrite ==
  /\ pc = "suppressWrite"
  /\ writePolicy' = [writePolicy EXCEPT !.metadata = writeRulesToSuppress]
  /\ pc' = "done"
  /\ UNCHANGED <<props, given, idx, readPolicy, err, run, firstRead, firstWrite>>

\* the constructor is run again on the same props
Recompile ==
  /\ pc = "done"
  /\ run < MaxRuns
  /\ run' = run + 1
  /\ firstRead' = IF run = 1 THEN readPolicy ELSE firstRead
  /\ firstWrite' = IF run = 1 THEN writePolicy ELSE firstWrite
  /\ pc' = "start"
  /\ UNCHANGED <<props, given, idx, readPolicy, writePolicy, err>>

Next ==
  \/ NewPolicies
  \/ AddStatement
  \/ Throw
  \/ SuppressRead
  \/ SuppressWrite
  \/ Recompile

Spec == Init /\ [][Next]_vars

(***************************************************************************)
(* Which statements a suppression reason speaks of: the actions and the    *)
(* services its text names.                                                *)
(***************************************************************************)
ReasonNames(reason) ==
  CASE reason = W12ReadReason ->
         {"ec2:DescribeRegions", "route53resolver:ListFirewallDomainLists",
          "route53resolver:ListFirewallRuleGroups", "ram:ListResources"}
    [] reason = W12WriteReason -> {"fms", "route53resolver"}
    [] reason = F4WriteReason -> {"wafv2"}
    [] OTHER -> {}

RulesOf(policy) ==
  IF policy = "readPolicy" THEN readRulesToSuppress ELSE writeRulesToSuppress

NamedBy(g, rule) ==
  \E a \in DOMAIN g.actions :
    \/ ActionText(g.actions[a]) \in ReasonNames(rule.reason)
    \/ g.actions[a][1] \in ReasonNames(rule.reason)

\* the (id, reason) pairs the source gives for statement g, in source order
Justifications(g) ==
  LET rules == RulesOf(g.policy)
      Names(r) == NamedBy(g, r)
  IN  SelectSeq(rules, Names)

(***************************************************************************)
(* Vocabulary of the properties.                                           *)
(***************************************************************************)
Range(seq) == {seq[j] : j \in DOMAIN seq}

Documents == {readPolicy, writePolicy}

\* the document of an access class
DocumentOf(cls) == IF cls = "Read" THEN readPolicy ELSE writePolicy

OtherDocument(cls) == IF cls = "Read" THEN writePolicy ELSE readPolicy

CountSid(doc, sid) ==
  Cardinality({j \in DOMAIN doc.statements : doc.statements[j].sid = sid})

\* the position in Statements of the literal a compiled statement comes from
Origin(st) == CHOOSE k \in DOMAIN Statements : Sid(Statements[k]) = st.sid

Wildcard(st) == "*" \in Range(st.resources)

\* the identifiers of props that the resources of g refer to
Placeholders(g) ==
  UNION {{g.resources[e].parts[j].v :
            j \in {i \in DOMAIN g.resources[e].parts :
                     g.resources[e].parts[i].k # "lit"}} :
         e \in DOMAIN g.resources}

MissingPlaceholders ==
  {n \in UNION {Placeholders(Statements[k]) : k \in DOMAIN Statements} :
     props[n] = Undefined}

\* a resource pattern with every placeholder replaced by its identifier
Substitute(entry, ids) ==
  Join([j \in DOMAIN entry.parts |->
          IF entry.parts[j].k = "lit" THEN entry.parts[j].v
                                      ELSE ids[entry.parts[j].v]])

Terminated == pc \in {"done", "threw"}

\* the constructor returned: both policies are attached to the role
Emitted == pc = "done"

(***************************************************************************)
(* C1  Partition correctness: after a successful construction every        *)
(* statement literal has exactly one statement in the policy of its access *)
(* class (the Read/Write word of its sid) and none in the other policy,    *)
(* and the two policies together hold as many statements as there are      *)
(* literals.                                                               *)
(***************************************************************************)
PartitionCorrect ==
  Emitted =>
    /\ \A k \in DOMAIN Statements :
         /\ CountSid(DocumentOf(Statements[k].cls), Sid(Statements[k])) = 1
         /\ CountSid(OtherDocument(Statements[k].cls), Sid(Statements[k])) = 0
    /\ Len(readPolicy.statements) + Len(writePolicy.statements) = Len(Statements)

PartitionWitness ==
  /\ Emitted
  /\ \E j \in DOMAIN readPolicy.statements : readPolicy.statements[j].sid = "SSMRead05"
  /\ \E j \in DOMAIN writePolicy.statements : writePolicy.statements[j].sid = "SQSWrite04"

RECURSIVE NumValue(_)
NumValue(num) ==
  IF num = <<>> THEN 0
  ELSE 10 * NumValue(SubSeq(num, 1, Len(num) - 1)) + num[Len(num)]

\* how many literals up to k have the service group and access class of k
GroupRank(k) ==
  Cardinality({m \in 1..k : /\ Statements[m].tag = Statements[k].tag
                            /\ Statements[m].cls = Statements[k].cls})

\* the decimal digits of n < 100, plain or padded to two digits
DigitsOf(n) ==
  IF n < 10 THEN {<<n>>, <<0, n>>} ELSE {<<n \div 10, n % 10>>}

StartsWith(num, n) ==
  \E d \in DigitsOf(n) : Len(d) <= Len(num) /\ SubSeq(num, 1, Len(d)) = d

OrderKept ==
  \A doc \in Documents :
    \A a, b \in DOMAIN doc.statements :
      a < b => Origin(doc.statements[a]) < Origin(doc.statements[b])

(***************************************************************************)
(* C9 as stated: within each policy the statements keep the order of the   *)
(* literals, and the number in a sid is a sequence number within the       *)
(* (service group, access class) of its literal, counted from 0 or from 1. *)
(***************************************************************************)
SequentialWithinGroup ==
  Emitted =>
    /\ OrderKept
    /\ \E base \in {0, 1} :
         \A doc \in Documents :
           \A j \in DOMAIN doc.statements :
             LET k == Origin(doc.statements[j])
             IN  NumValue(Statements[k].num) = base + GroupRank(k) - 1

(***************************************************************************)
(* C9 amended: within each policy the statements keep the order of the     *)
(* literals, and the digits of a sid start with the position of its        *)
(* literal among all the literals of both access classes, counted from 0.  *)
(***************************************************************************)
NumberedByPosition ==
  /\ OrderKept
  /\ \A doc \in Documents :
       \A j \in DOMAIN doc.statements :
         LET k == Origin(doc.statements[j])
         IN  StartsWith(Statements[k].num, k - 1)

NumberedByPositionWitness ==
  /\ Emitted
  /\ Len(readPolicy.statements) > 1
  /\ readPolicy.statements[2].sid = "SSMRead05"
  /\ writePolicy.statements[2].sid = "FMSWrite021"

(***************************************************************************)
(* C3  Wildcard-justification law: in each emitted policy a statement has  *)
(* the resource "*" exactly when the source gives a justification for it,  *)
(* and then that justification is the reason of a suppression of the same  *)
(* policy.                                                                 *)
(***************************************************************************)
WildcardJustified ==
  Emitted =>
    \A doc \in Documents :
      \A j \in DOMAIN doc.statements :
        LET st == doc.statements[j]
            just == Justifications(Statements[Origin(st)])
        IN  /\ Wildcard(st) <=> just # <<>>
            /\ Wildcard(st) =>
                 \E m \in DOMAIN doc.metadata :
                   \E i \in DOMAIN just : doc.metadata[m].reason = just[i].reason

(***************************************************************************)
(* C10  Suppression emission: the suppressions of an emitted policy are    *)
(* the (id, reason) pairs of its statements with resource "*", one or more *)
(* per such statement, in statement order, a pair left out when the same   *)
(* pair was already appended; statements without "*" contribute nothing.   *)
(***************************************************************************)
RECURSIVE Dedup(_, _)
Dedup(acc, pairs) ==
  IF pairs = <<>> THEN acc
  ELSE Dedup(IF Head(pairs) \in Range(acc) THEN acc ELSE Append(acc, Head(pairs)),
             Tail(pairs))

RECURSIVE ExpectedSuppressions(_, _)
ExpectedSuppressions(acc, sts) ==
  IF sts = <<>> THEN acc
  ELSE ExpectedSuppressions(
         IF Wildcard(Head(sts))
           THEN Dedup(acc, Justifications(Statements[Origin(Head(sts))]))
           ELSE acc,
         Tail(sts))

SuppressionEmission ==
  Emitted =>
    \A doc \in Documents :
      /\ doc.metadata = ExpectedSuppressions(<<>>, doc.statements)
      /\ \A j \in DOMAIN doc.statements :
           Wildcard(doc.statements[j]) =>
             Justifications(Statements[Origin(doc.statements[j])]) # <<>>

(***************************************************************************)
(* C4  Fail-closed law: when a statement literal is invalid (a sid used    *)
(* twice, no actions, no resources, "*" without justification, a           *)
(* justification without "*", a placeholder props does not define), no     *)
(* policy is emitted.                                                      *)
(***************************************************************************)
InvalidGrant(k) ==
  LET g == Statements[k]
      star == Value(Lit("*")) \in Range(g.resources)
  IN  \/ \E m \in DOMAIN Statements : m # k /\ Sid(Statements[m]) = Sid(g)
      \/ g.actions = <<>>
      \/ g.resources = <<>>
      \/ star /\ Justifications(g) = <<>>
      \/ ~star /\ Justifications(g) # <<>>
      \/ Placeholders(g) \cap MissingPlaceholders # {}

FailClosed ==
  (\E k \in DOMAIN Statements : InvalidGrant(k)) => ~Emitted

(***************************************************************************)
(* C6  Resolution failure: when a resource refers to an identifier that    *)
(* props does not define, the construction ends in a ResolutionError that  *)
(* names that identifier, and no policy is emitted.                        *)
(***************************************************************************)
ResolutionFailure ==
  (Terminated /\ MissingPlaceholders # {}) =>
    /\ pc = "threw"
    /\ err.kind = "ResolutionError"
    /\ err.property \in MissingPlaceholders

====
